---- MODULE Spec2Model ----
(***************************************************************************)
(* Model of fuc_engine's chmod operation (fuc_engine/src/ops/chmod.rs):    *)
(* ChmodOp::run -> schedule_chmod -> Impl::run -> chmod_dir_all, running   *)
(* over a small concrete file system.                                      *)
(*                                                                         *)
(* Paths are byte strings, modelled as sequences of one-byte strings; the  *)
(* names of the file system are one byte long.  The file system is         *)
(*     /        directory (also the working directory)                     *)
(*     /d       directory          /d/a   regular file                     *)
(*     /d/b     directory          /d/b/c regular file                     *)
(*     /d/s     symlink -> /d/b    /f     regular file                     *)
(* When env.tree is "empty" the tree also has the empty directory /e; when  *)
(* it is "loop", /e has one entry, /e/u, a symlink -> /e (a symlink to its *)
(* own ancestor).                                                          *)
(* and "m" names nothing.                                                  *)
(***************************************************************************)
EXTENDS Integers, Sequences, FiniteSets, TLC

VARIABLES env, files, mode, force, idx, pc, result, task, bits, faults,
          tried, wrote, seen

vars == <<env, files, mode, force, idx, pc, result, task, bits, faults,
          tried, wrote, seen>>

(* ---------------------------- bounds ----------------------------------- *)
MaxRoots == 2      \* longest list of input roots
MaxTrail == 2      \* most trailing separators on an input root
MaxFaults == 1     \* most injected I/O failures in one run
MaxWorkers == 2    \* largest worker pool tried when the pool is limited
MaxDigits == 10    \* longest run of one digit in a mode string

(* ---------------------------- the file system -------------------------- *)
SEP == "/"

Inodes == {"/", "d", "e", "f", "a", "b", "s", "c", "u"}

Kind(i) == CASE i \in {"/", "d", "b", "e"} -> "dir"
             [] i \in {"s", "u"} -> "symlink"
             [] OTHER -> "file"

Entries(i) == CASE i = "/" -> IF env.tree = "base" THEN {"d", "f"} ELSE {"d", "e", "f"}
                [] i = "d" -> {"a", "b", "s"}
                [] i = "b" -> {"c"}
                [] i = "e" -> IF env.tree = "loop" THEN {"u"} ELSE {}
                [] OTHER -> {}

Target(i) == CASE i = "s" -> "b"
               [] i = "u" -> "e"
               [] OTHER -> i

Follow(i) == IF i \in Inodes /\ Kind(i) = "symlink" THEN Target(i) ELSE i

InitBits == [i \in Inodes |-> IF Kind(i) = "dir" THEN 493 ELSE 420]

EndsWithSep(p) == Len(p) > 0 /\ p[Len(p)] = SEP

\* Path resolution of the operating system: every component but the last is
\* followed through symlinks; the last one is followed when follow is set or
\* when the path ends with a separator, and must then be a directory.  The
\* result is an inode, "ENOENT" or "ENOTDIR".
RECURSIVE Walk(_, _, _)
Walk(cur, p, i) ==
    IF i > Len(p) THEN cur
    ELSE IF p[i] = SEP THEN Walk(cur, p, i + 1)
    ELSE LET here == Follow(cur) IN
         IF Kind(here) # "dir" THEN "ENOTDIR"
         ELSE IF p[i] \notin Entries(here) THEN "ENOENT"
         ELSE Walk(p[i], p, i + 1)

Resolve(p, follow) ==
    IF Len(p) = 0 THEN "ENOENT"
    ELSE LET r == Walk("/", p, 1) IN
         IF r \notin Inodes THEN r
         ELSE IF EndsWithSep(p)
              THEN (IF Kind(Follow(r)) = "dir" THEN Follow(r) ELSE "ENOTDIR")
              ELSE (IF follow THEN Follow(r) ELSE r)

\* Path::join / DirEntry::path: the separator is added only when needed.
Join(p, n) == IF EndsWithSep(p) \/ Len(p) = 0 THEN p \o <<n>> ELSE p \o <<SEP, n>>

(* ---------------------------- inputs ----------------------------------- *)
Bases == { <<"d">>, <<"f">>, <<"m">>, <<"d", SEP, "s">>, <<>> }

RECURSIVE Seps(_)
Seps(k) == IF k = 0 THEN <<>> ELSE <<SEP>> \o Seps(k - 1)

RawPaths == { b \o Seps(k) : b \in Bases, k \in 0..MaxTrail }

RECURSIVE SeqsUpTo(_, _)
SeqsUpTo(S, n) ==
    IF n = 0 THEN { <<>> }
    ELSE LET shorter == SeqsUpTo(S, n - 1) IN
         shorter \cup { Append(q, x) : q \in { r \in shorter : Len(r) = n - 1 }, x \in S }

RootLists == SeqsUpTo(RawPaths, MaxRoots) \ { <<>> }

\* ChmodMode: Octal(n) (here 0o644 = 420), or Symbolic(s) with s accepted
\* ("u+x") or rejected ("bad") by the symbolic-mode parser.
Modes == { [tag |-> "Octal", n |-> 420, s |-> ""],
           [tag |-> "Symbolic", n |-> 0, s |-> "u+x"],
           [tag |-> "Symbolic", n |-> 0, s |-> "bad"] }

(* ---------------------------- errors ----------------------------------- *)
NoErr == [kind |-> "none", path |-> <<>>, op |-> ""]
IoError(p, op) == [kind |-> "IoError", path |-> p, op |-> op]
ModeParseError(p) == [kind |-> "ModeParseError", path |-> p, op |-> "set_mode"]

Running == [kind |-> "Running", file |-> <<>>, context |-> "", cause |-> NoErr]
Ok == [kind |-> "Ok", file |-> <<>>, context |-> "", cause |-> NoErr]
NotFound(p) == [kind |-> "NotFound", file |-> p, context |-> "", cause |-> NoErr]
ErrorIo(ctx, p, e) == [kind |-> "Io", file |-> p, context |-> ctx, cause |-> e]
FileMode(e) == [kind |-> "FileMode", file |-> <<>>, context |-> "", cause |-> e]

(* ---------------------------- helpers ---------------------------------- *)
Count(f, k) == IF k \in DOMAIN f THEN f[k] ELSE 0
Bump(f, k) == [x \in DOMAIN f \cup {k} |-> IF x = k THEN Count(f, k) + 1 ELSE f[x]]

Task(s, d, todo) == [s |-> s, dir |-> d, todo |-> todo, e |-> NoErr, rd |-> 0]

CanFault == faults < MaxFaults

(* ---------------------------- schedule_chmod --------------------------- *)
\* strip_suffix(MAIN_SEPARATOR_STR): one trailing separator is removed.
StripPath(file) ==
    IF EndsWithSep(file) THEN SubSeq(file, 1, Len(file) - 1) ELSE file

\* Path::symlink_metadata: lstat of the path as written.
SymlinkMetadata(p) == Resolve(p, FALSE)

\* The entry a path-taking call (read_dir, set_mode) operates on: symlinks
\* are followed.
Ino(p) == Resolve(p, TRUE)

\* The process environment: whether permission bits are enforced on the
\* process (it is not the superuser), the size of the worker pool, which
\* tree is on the disk, and the command line when the run is started by
\* chmodz.
NoArgs == [mode |-> <<>>, force |-> FALSE, files |-> <<>>]

\* Owner permission bits of an inode: search is 0o100, read is 0o400.
Searchable(i) == (bits[i] \div 64) % 2 = 1
Readable(i) == (bits[i] \div 256) % 2 = 1

\* The directories searched when path p is resolved.
RECURSIVE SearchedDirs(_, _, _)
SearchedDirs(cur, p, i) ==
    IF i > Len(p) THEN {}
    ELSE IF p[i] = SEP THEN SearchedDirs(cur, p, i + 1)
    ELSE LET here == Follow(cur) IN
         IF Kind(here) # "dir" THEN {}
         ELSE IF p[i] \notin Entries(here) THEN {here}
         ELSE {here} \cup SearchedDirs(p[i], p, i + 1)

\* A file system call on path p fails with EACCES: a directory on the way
\* is not searchable, or (list) the directory itself is to be read and is
\* not readable.  The superuser is never refused.
Denied(p, list) ==
    /\ env.unpriv
    /\ \/ \E i \in SearchedDirs("/", p, 1) : ~Searchable(i)
       \/ list /\ Ino(p) \in Inodes /\ ~Readable(Ino(p))

\* Mutant: a task waiting at the barrier of its directory keeps its worker.
BusyBlocking ==
    Cardinality({ p \in DOMAIN task : /\ p # StripPath(files[idx])
                                      /\ task[p].s \in {"readdir", "iter", "setmode", "write"} })

\* The pool workers that are executing a task.  The root's own steps run on
\* the calling thread; a task waiting in try_for_each gives its worker to
\* other tasks (work stealing).
Busy ==
    Cardinality({ p \in DOMAIN task : /\ p # StripPath(files[idx])
                                      /\ task[p].s \in {"readdir", "setmode", "write"} })

FreeWorker == Busy < env.workers

Init ==
    /\ env = [unpriv |-> FALSE, workers |-> Cardinality(Inodes), tree |-> "base",
              args |-> NoArgs]
    /\ files \in RootLists
    /\ mode \in Modes
    /\ force \in BOOLEAN
    /\ idx = 1
    /\ pc = "loop"
    /\ result = Running
    /\ task = <<>>
    /\ bits = InitBits
    /\ faults = 0
    /\ tried = <<>>
    /\ wrote = <<>>
    /\ seen = <<>>

\* Mutant: the force flag is not consulted; a missing root is always skipped.
MissingAlwaysSkip(stripped_path) ==
    /\ idx' = idx + 1
    /\ seen' = Append(seen, [class |-> "skipped", path |-> stripped_path])
    /\ UNCHANGED <<pc, result, task>>

\* Mutant: with force a missing root ends the loop (`break` for `continue`).
MissingBreak(stripped_path) ==
    IF force
    THEN /\ result' = Ok
         /\ pc' = "done"
         /\ seen' = Append(seen, [class |-> "skipped", path |-> stripped_path])
         /\ UNCHANGED <<idx, task>>
    ELSE /\ result' = NotFound(stripped_path)
         /\ pc' = "done"
         /\ seen' = Append(seen, [class |-> "notfound", path |-> stripped_path])
         /\ UNCHANGED <<idx, task>>

\* Lines 98-106: symlink_metadata reported NotFound.  With force the loop
\* continues with the next root; without it the function returns NotFound.
Missing(stripped_path) ==
    IF force
    THEN /\ idx' = idx + 1
         /\ seen' = Append(seen, [class |-> "skipped", path |-> stripped_path])
         /\ UNCHANGED <<pc, result, task>>
    ELSE /\ result' = NotFound(stripped_path)
         /\ pc' = "done"
         /\ seen' = Append(seen, [class |-> "notfound", path |-> stripped_path])
         /\ UNCHANGED <<idx, task>>

\* One turn of the for loop up to the branch on is_dir: lines 85-120.
ScheduleRoot ==
    /\ pc = "loop"
    /\ idx <= Len(files)
    /\ LET stripped_path == StripPath(files[idx]) IN
       \E meta \in {IF Denied(stripped_path, FALSE) THEN "EACCES"
                    ELSE SymlinkMetadata(stripped_path)}
                   \cup (IF CanFault THEN {"EIO"} ELSE {}) :
          /\ faults' = IF meta = "EIO" THEN faults + 1 ELSE faults
          /\ IF meta = "ENOENT" THEN Missing(stripped_path)
             ELSE IF meta \notin Inodes THEN
                /\ result' = ErrorIo("Failed to read metadata for file", stripped_path,
                                     IoError(stripped_path, "symlink_metadata"))
                /\ pc' = "done"
                /\ seen' = Append(seen, [class |-> "ioerr", path |-> stripped_path])
                /\ UNCHANGED <<idx, task>>
             ELSE IF Kind(meta) = "dir" THEN
                /\ task' = (stripped_path :> Task("readdir", TRUE, {}))
                /\ pc' = "root"
                /\ seen' = Append(seen, [class |-> "dir", path |-> stripped_path])
                /\ UNCHANGED <<idx, result>>
             ELSE
                /\ task' = (stripped_path :> Task("setmode", FALSE, {}))
                /\ pc' = "root"
                /\ seen' = Append(seen, [class |-> "file", path |-> stripped_path])
                /\ UNCHANGED <<idx, result>>
    /\ UNCHANGED <<env, files, mode, force, bits, tried, wrote>>

(* ---------------------------- chmod_dir_all ---------------------------- *)
Terminal(t) == t.s \in {"ok", "err"}

\* The entries of directory task D that try_for_each has taken so far.
Taken(D) == { Join(D, n) : n \in Entries(Ino(D)) \ task[D].todo }

\* path.read_dir()?
ReadDir(D) ==
    /\ pc = "root"
    /\ D \in DOMAIN task
    /\ task[D].s = "readdir"
    /\ \/ /\ ~Denied(D, TRUE)
          /\ task' = [task EXCEPT ![D].s = "iter", ![D].todo = Entries(Ino(D))]
          /\ UNCHANGED faults
       \/ /\ Denied(D, TRUE)
          /\ task' = [task EXCEPT ![D].s = "err", ![D].e = IoError(D, "read_dir")]
          /\ UNCHANGED faults
       \/ /\ CanFault
          /\ task' = [task EXCEPT ![D].s = "err", ![D].e = IoError(D, "read_dir")]
          /\ faults' = faults + 1
    /\ UNCHANGED <<env, files, mode, force, idx, pc, result, bits, tried, wrote, seen>>

\* Mutant: symlink entries are passed over, as `chmod -R` does: the entry is
\* finished without a set_mode call.
StartEntrySkipSymlink(D, n) ==
    /\ pc = "root"
    /\ D \in DOMAIN task
    /\ task[D].s = "iter"
    /\ n \in task[D].todo
    /\ FreeWorker
    /\ LET q == Join(D, n)
           rest == [task EXCEPT ![D].todo = @ \ {n}]
       IN task' = rest @@ (q :> Task(IF Kind(n) = "dir" THEN "readdir"
                                     ELSE IF Kind(n) = "symlink" THEN "ok" ELSE "setmode",
                                     Kind(n) = "dir", {}))
    /\ UNCHANGED <<env, files, mode, force, idx, pc, result, bits, faults, tried, wrote, seen>>

\* A worker takes the next entry of D's iterator and runs the closure up to
\* the branch on file_type().is_dir(): lines 179-184.
StartEntry(D, n) ==
    /\ pc = "root"
    /\ D \in DOMAIN task
    /\ task[D].s = "iter"
    /\ n \in task[D].todo
    /\ FreeWorker
    /\ LET q == Join(D, n)
           rest == [task EXCEPT ![D].todo = @ \ {n}]
       IN \/ /\ task' = rest @@ (q :> Task(IF Kind(n) = "dir" THEN "readdir" ELSE "setmode",
                                           Kind(n) = "dir", {}))
             /\ UNCHANGED faults
          \/ /\ CanFault
             /\ \E op \in {"dir_entry", "file_type"} :
                   task' = rest @@ (q :> [Task("err", FALSE, {}) EXCEPT !.e = IoError(q, op)])
             /\ faults' = faults + 1
    /\ UNCHANGED <<env, files, mode, force, idx, pc, result, bits, tried, wrote, seen>>

\* The symbolic transform "u+x": set the owner-execute bit (0o100 = 64).
Transform(b) == IF (b \div 64) % 2 = 1 THEN b ELSE b + 64

\* Mutant: a failed set_mode call is made again instead of being returned.
SetModeRetry(p) ==
    /\ pc = "root"
    /\ p \in DOMAIN task
    /\ task[p].s = "setmode"
    /\ tried' = Bump(tried, <<idx, p>>)
    /\ \/ /\ CanFault
          /\ faults' = faults + 1
          /\ UNCHANGED <<task, bits, wrote>>
       \/ /\ task' = [task EXCEPT ![p].s = "ok"]
          /\ bits' = [bits EXCEPT ![Ino(p)] = IF mode.tag = "Octal" THEN mode.n ELSE Transform(@)]
          /\ wrote' = Bump(wrote, <<idx, p>>)
          /\ UNCHANGED faults
    /\ UNCHANGED <<env, files, mode, force, idx, pc, result, seen>>

\* Mutant: a mode string that does not parse is passed over as if applied.
SetModeLenient(p) ==
    /\ pc = "root"
    /\ p \in DOMAIN task
    /\ task[p].s = "setmode"
    /\ tried' = Bump(tried, <<idx, p>>)
    /\ \/ /\ CanFault
          /\ task' = [task EXCEPT ![p].s = "err", ![p].e = IoError(p, "set_mode")]
          /\ faults' = faults + 1
          /\ UNCHANGED <<bits, wrote>>
       \/ /\ mode.tag = "Octal"
          /\ task' = [task EXCEPT ![p].s = "ok"]
          /\ bits' = [bits EXCEPT ![Ino(p)] = mode.n]
          /\ wrote' = Bump(wrote, <<idx, p>>)
          /\ UNCHANGED faults
       \/ /\ mode.tag = "Symbolic"
          /\ mode.s = "bad"
          /\ task' = [task EXCEPT ![p].s = "ok"]
          /\ wrote' = Bump(wrote, <<idx, p>>)
          /\ UNCHANGED <<bits, faults>>
       \/ /\ mode.tag = "Symbolic"
          /\ mode.s # "bad"
          /\ task' = [task EXCEPT ![p].s = "write", ![p].rd = bits[Ino(p)]]
          /\ UNCHANGED <<bits, wrote, faults>>
    /\ UNCHANGED <<env, files, mode, force, idx, pc, result, seen>>

\* ModePath::set_mode on p, first step: the whole call for Octal; for
\* Symbolic the read of the current bits and the parse of the mode string.
SetMode(p) ==
    /\ pc = "root"
    /\ p \in DOMAIN task
    /\ task[p].s = "setmode"
    /\ tried' = Bump(tried, <<idx, p>>)
    /\ \/ /\ CanFault
          /\ task' = [task EXCEPT ![p].s = "err", ![p].e = IoError(p, "set_mode")]
          /\ faults' = faults + 1
          /\ UNCHANGED <<bits, wrote>>
       \/ /\ Denied(p, FALSE)
          /\ task' = [task EXCEPT ![p].s = "err", ![p].e = IoError(p, "set_mode")]
          /\ UNCHANGED <<bits, wrote, faults>>
       \/ /\ ~Denied(p, FALSE)
          /\ mode.tag = "Octal"
          /\ task' = [task EXCEPT ![p].s = "ok"]
          /\ bits' = [bits EXCEPT ![Ino(p)] = mode.n]
          /\ wrote' = Bump(wrote, <<idx, p>>)
          /\ UNCHANGED faults
       \/ /\ ~Denied(p, FALSE)
          /\ mode.tag = "Symbolic"
          /\ mode.s = "bad"
          /\ task' = [task EXCEPT ![p].s = "err", ![p].e = ModeParseError(p)]
          /\ UNCHANGED <<bits, wrote, faults>>
       \/ /\ ~Denied(p, FALSE)
          /\ mode.tag = "Symbolic"
          /\ mode.s # "bad"
          /\ task' = [task EXCEPT ![p].s = "write", ![p].rd = bits[Ino(p)]]
          /\ UNCHANGED <<bits, wrote, faults>>
    /\ UNCHANGED <<env, files, mode, force, idx, pc, result, seen>>

\* ModePath::set_mode on p, Symbolic, second step: the write of the new bits.
WriteMode(p) ==
    /\ pc = "root"
    /\ p \in DOMAIN task
    /\ task[p].s = "write"
    /\ \/ /\ ~Denied(p, FALSE)
          /\ task' = [task EXCEPT ![p].s = "ok", ![p].rd = 0]
          /\ bits' = [bits EXCEPT ![Ino(p)] = Transform(task[p].rd)]
          /\ wrote' = Bump(wrote, <<idx, p>>)
          /\ UNCHANGED faults
       \/ /\ Denied(p, FALSE)
          /\ task' = [task EXCEPT ![p].s = "err", ![p].rd = 0, ![p].e = IoError(p, "set_mode")]
          /\ UNCHANGED <<bits, wrote, faults>>
       \/ /\ CanFault
          /\ task' = [task EXCEPT ![p].s = "err", ![p].rd = 0, ![p].e = IoError(p, "set_mode")]
          /\ faults' = faults + 1
          /\ UNCHANGED <<bits, wrote>>
    /\ UNCHANGED <<env, files, mode, force, idx, pc, result, tried, seen>>

\* The errors try_for_each may return for D: those of its failed entries.
ChildErrors(D) == { task[q].e : q \in { r \in Taken(D) : task[r].s = "err" } }

\* Mutant: try_for_each returns as soon as the iterator is exhausted, without
\* waiting for the entries still being worked on.
TryForEachDoneNoBarrier(D) ==
    /\ pc = "root"
    /\ D \in DOMAIN task
    /\ task[D].s = "iter"
    /\ task[D].todo = {}
    /\ task' = [task EXCEPT ![D].s = "setmode"]
    /\ UNCHANGED <<env, files, mode, force, idx, pc, result, bits, faults, tried, wrote, seen>>

\* Mutant: the result of try_for_each is dropped (no `?`), so the directory's
\* own set_mode follows whatever its entries returned.
TryForEachDoneIgnoreErr(D) ==
    /\ pc = "root"
    /\ D \in DOMAIN task
    /\ task[D].s = "iter"
    /\ \A q \in Taken(D) : Terminal(task[q])
    /\ task[D].todo = {} \/ \E q \in Taken(D) : task[q].s = "err"
    /\ task' = [task EXCEPT ![D].s = "setmode", ![D].todo = {}]
    /\ UNCHANGED <<env, files, mode, force, idx, pc, result, bits, faults, tried, wrote, seen>>

\* Mutant: try_for_each returns the error as soon as one entry has failed,
\* without waiting for the entries still being worked on.
TryForEachDoneEarlyErr(D) ==
    /\ pc = "root"
    /\ D \in DOMAIN task
    /\ task[D].s = "iter"
    /\ IF ChildErrors(D) # {}
       THEN \E e \in ChildErrors(D) :
               task' = [task EXCEPT ![D].s = "err", ![D].e = e, ![D].todo = {}]
       ELSE /\ \A q \in Taken(D) : Terminal(task[q])
            /\ task[D].todo = {}
            /\ task' = [task EXCEPT ![D].s = "setmode"]
    /\ UNCHANGED <<env, files, mode, force, idx, pc, result, bits, faults, tried, wrote, seen>>

\* try_for_each(..)? returns: every taken entry has finished, and either the
\* iterator is exhausted or an entry failed (no further entry is taken).
\* On success chmod_dir_all goes on to the directory's own set_mode, on the
\* thread that called try_for_each once it has no other task in hand.
TryForEachDone(D) ==
    /\ pc = "root"
    /\ D \in DOMAIN task
    /\ task[D].s = "iter"
    /\ \A q \in Taken(D) : Terminal(task[q])
    /\ IF ChildErrors(D) # {}
       THEN \E e \in ChildErrors(D) :
               task' = [task EXCEPT ![D].s = "err", ![D].e = e, ![D].todo = {}]
       ELSE /\ task[D].todo = {}
            /\ D = StripPath(files[idx]) \/ FreeWorker
            /\ task' = [task EXCEPT ![D].s = "setmode"]
    /\ UNCHANGED <<env, files, mode, force, idx, pc, result, bits, faults, tried, wrote, seen>>

(* ---------------------------- back in schedule_chmod ------------------- *)
\* Mutant: the error of the traversal is replaced by a new one about the root.
MapErrLossy(e, root, isdir) ==
    ErrorIo("Failed to chmod directory", root, IoError(root, "chmod_dir_all"))

\* Impl::run (158-168) for a directory root, lines 124-132 for another root:
\* the ModeError of the root's task becomes the run's Error.
MapErr(e, root, isdir) ==
    IF e.kind = "IoError"
    THEN ErrorIo(IF isdir THEN "Failed to chmod directory" ELSE "Failed to chmod file", root, e)
    ELSE FileMode(e)

\* Mutant: the error of a root is dropped (no `?`) and the loop goes on.
RootDoneSwallow ==
    /\ pc = "root"
    /\ Terminal(task[StripPath(files[idx])])
    /\ idx' = idx + 1
    /\ pc' = "loop"
    /\ task' = <<>>
    /\ UNCHANGED result
    /\ UNCHANGED <<env, files, mode, force, bits, faults, tried, wrote, seen>>

\* The root's work has returned: `?` on its result, then the next turn.
RootDone ==
    /\ pc = "root"
    /\ LET root == StripPath(files[idx]) IN
       /\ Terminal(task[root])
       /\ IF task[root].s = "ok"
          THEN /\ idx' = idx + 1
               /\ pc' = "loop"
               /\ task' = <<>>
               /\ UNCHANGED result
          ELSE /\ result' = MapErr(task[root].e, root, task[root].dir)
               /\ pc' = "done"
               /\ UNCHANGED <<idx, task>>
    /\ UNCHANGED <<env, files, mode, force, bits, faults, tried, wrote, seen>>

\* The loop is over: Ok(()), and ChmodOp::run returns finish().and(result).
Return ==
    /\ pc = "loop"
    /\ idx > Len(files)
    /\ result' = Ok
    /\ pc' = "done"
    /\ UNCHANGED <<env, files, mode, force, idx, task, bits, faults, tried, wrote, seen>>

Next ==
    \/ ScheduleRoot
    \/ \E D \in DOMAIN task : ReadDir(D)
    \/ \E D \in DOMAIN task : \E n \in Inodes : StartEntry(D, n)
    \/ \E p \in DOMAIN task : SetMode(p)
    \/ \E p \in DOMAIN task : WriteMode(p)
    \/ \E D \in DOMAIN task : TryForEachDone(D)
    \/ RootDone
    \/ Return

Spec == Init /\ [][Next]_vars

(* ---------------------------- limited environment ----------------------- *)
\* One named root, or /e after another root, on a tree with /e, run as an
\* unprivileged user or not, on a pool of 1..MaxWorkers workers.
EnvRootLists ==
    { <<b \o Seps(k)>> : b \in (Bases \ { <<>> }) \cup { <<"e">> }, k \in 0..MaxTrail }
    \cup { <<r, <<"e">>>> : r \in { <<"d">>, <<"m">> } }

InitEnv ==
    /\ env \in [unpriv : BOOLEAN, workers : 1..MaxWorkers, tree : {"empty", "loop"},
                 args : {NoArgs}]
    /\ files \in EnvRootLists
    /\ mode \in Modes
    /\ force \in BOOLEAN
    /\ idx = 1
    /\ pc = "loop"
    /\ result = Running
    /\ task = <<>>
    /\ bits = InitBits
    /\ faults = 0
    /\ tried = <<>>
    /\ wrote = <<>>
    /\ seen = <<>>

SpecEnv == InitEnv /\ [][Next]_vars

\* Fair scheduling: a step that can be taken is eventually taken.  Every
\* enabled step of Next is a step of a running thread (the calling thread or
\* a pool worker), and threads that can run do run.
SpecLive == InitEnv /\ [][Next]_vars /\ WF_vars(Next)

(* ---------------------------- ChmodMode::new ---------------------------- *)
OctalDigits == <<"0", "1", "2", "3", "4", "5", "6", "7">>

IsOct(c) == \E k \in DOMAIN OctalDigits : OctalDigits[k] = c
ToDigit(c) == (CHOOSE k \in DOMAIN OctalDigits : OctalDigits[k] = c) - 1

\* Mutant: the digits are accumulated with wrapping arithmetic.
RECURSIVE AccumulateWrapping(_, _, _)
AccumulateWrapping(digits, i, acc) ==
    IF i > Len(digits) THEN [ok |-> TRUE, n |-> acc]
    ELSE IF ~IsOct(digits[i]) THEN [ok |-> FALSE, n |-> <<0, 0>>]
    ELSE LET lo == acc[2] * 8 + ToDigit(digits[i])
             hi == acc[1] * 8 + (lo \div 65536)
         IN AccumulateWrapping(digits, i + 1, <<hi % 65536, lo % 65536>>)

\* The digit loop of u32::from_str_radix(_, 8): result = result * 8 + digit
\* with checked arithmetic.  The u32 is kept as two 16-bit limbs <<hi, lo>>;
\* the product overflows exactly when the high limb leaves 16 bits (the sum
\* cannot overflow after it: the product's low three bits are zero).
RECURSIVE Accumulate(_, _, _)
Accumulate(digits, i, acc) ==
    IF i > Len(digits) THEN [ok |-> TRUE, n |-> acc]
    ELSE IF ~IsOct(digits[i]) THEN [ok |-> FALSE, n |-> <<0, 0>>]
    ELSE LET lo == acc[2] * 8 + ToDigit(digits[i])
             hi == acc[1] * 8 + (lo \div 65536)
         IN IF hi >= 65536 THEN [ok |-> FALSE, n |-> <<0, 0>>]
            ELSE Accumulate(digits, i + 1, <<hi, lo % 65536>>)

\* u32::from_str_radix(src, 8): empty is an error, a lone sign is an error,
\* one leading "+" is dropped, "-" is no digit of an unsigned type.
FromStrRadix(src) ==
    IF Len(src) = 0 THEN [ok |-> FALSE, n |-> <<0, 0>>]
    ELSE IF Len(src) = 1 /\ src[1] \in {"+", "-"} THEN [ok |-> FALSE, n |-> <<0, 0>>]
    ELSE Accumulate(IF src[1] = "+" THEN Tail(src) ELSE src, 1, <<0, 0>>)

\* ChmodMode::new, lines 24-31.
ChmodModeNew(m) ==
    LET r == FromStrRadix(m) IN
    IF r.ok THEN [tag |-> "Octal", n |-> r.n, s |-> <<>>]
    ELSE [tag |-> "Symbolic", n |-> <<0, 0>>, s |-> m]

\* Mode strings: an optional sign, an optional first digit, a run of up to
\* MaxDigits equal digits, an optional letter.
Rep(c, k) == [i \in 1..k |-> c]

ModeStrings ==
    { sign \o head \o Rep(c, k) \o suffix :
        sign \in {<<>>, <<"+">>, <<"-">>},
        head \in {<<>>, <<"3">>, <<"4">>},
        c \in {"0", "7"},
        k \in 0..MaxDigits,
        suffix \in {<<>>, <<"x">>, <<"8">>} }

Unparsed == [tag |-> "Symbolic", n |-> <<0, 0>>, s |-> <<>>]

InitMode ==
    /\ env \in [unpriv : {FALSE}, workers : {Cardinality(Inodes)}, tree : {"base"},
                 args : [mode : ModeStrings, force : {FALSE}, files : {<<>>}]]
    /\ files = <<>>
    /\ mode = Unparsed
    /\ force = FALSE
    /\ idx = 1
    /\ pc = "main"
    /\ result = Running
    /\ task = <<>>
    /\ bits = InitBits
    /\ faults = 0
    /\ tried = <<>>
    /\ wrote = <<>>
    /\ seen = <<>>

\* main.rs line 106: ChmodMode::new(mode.as_str()).
New ==
    /\ pc = "main"
    /\ mode' = ChmodModeNew(env.args.mode)
    /\ pc' = "parsed"
    /\ UNCHANGED <<env, files, force, idx, result, task, bits, faults, tried, wrote, seen>>

SpecMode == InitMode /\ [][New]_vars

(* ---------------------------- chmodz ------------------------------------ *)
\* The command lines tried: a mode, whether --force is among the arguments,
\* and one path.
CliModes == { <<"6", "4", "4">>, <<"u", "+", "x">>, <<"b", "a", "d">> }

RECURSIVE Flat(_)
Flat(q) == IF q = <<>> THEN "" ELSE q[1] \o Flat(Tail(q))

\* The engine's view of a parsed mode: the number, or the string.
EngineMode(m) ==
    IF m.tag = "Octal" THEN [tag |-> "Octal", n |-> m.n[1] * 65536 + m.n[2], s |-> ""]
    ELSE [tag |-> "Symbolic", n |-> 0, s |-> Flat(m.s)]

Usage == [kind |-> "Usage", file |-> <<>>, context |-> "unexpected argument '--force'",
          cause |-> NoErr]

InitCli ==
    /\ env \in [unpriv : {FALSE}, workers : {Cardinality(Inodes)}, tree : {"base"},
                 args : [mode : CliModes, force : BOOLEAN, files : EnvRootLists]]
    /\ files = <<>>
    /\ mode = EngineMode(Unparsed)
    /\ force = FALSE
    /\ idx = 1
    /\ pc = "main"
    /\ result = Running
    /\ task = <<>>
    /\ bits = InitBits
    /\ faults = 0
    /\ tried = <<>>
    /\ wrote = <<>>
    /\ seen = <<>>

\* main.rs: Chmodz::parse() (line 76; the struct of lines 15-29 declares
\* mode, files and help, so --force is refused as an unknown argument), then
\* chmod() (lines 97-109) builds the ChmodOp from files and mode only; the
\* builder's default for force is false (chmod.rs line 53).
Main ==
    /\ pc = "main"
    /\ IF env.args.force
       THEN /\ result' = Usage
            /\ pc' = "done"
            /\ UNCHANGED <<files, mode, force>>
       ELSE /\ files' = env.args.files
            /\ mode' = EngineMode(ChmodModeNew(env.args.mode))
            /\ force' = FALSE
            /\ pc' = "loop"
            /\ UNCHANGED result
    /\ UNCHANGED <<env, idx, task, bits, faults, tried, wrote, seen>>

\* main.rs lines 79-94: what is attached to the report of a failed run.
Attached(e) ==
    CASE e.kind = "Io" -> e.context
      [] e.kind = "NotFound" -> "Use --force to ignore."
      [] OTHER -> ""

NextCli == Main \/ Next

SpecCli == InitCli /\ [][NextCli]_vars

TypeOK ==
    /\ idx \in 1..(Len(files) + 1)
    /\ pc \in {"main", "parsed", "loop", "root", "done"}
    /\ faults \in 0..MaxFaults
    /\ \A p \in DOMAIN task : task[p].s \in {"readdir", "iter", "setmode", "write", "ok", "err"}

(* ======================================================================= *)
(* Properties                                                              *)
(* ======================================================================= *)

\* The path is classified as a directory by an lstat-style query.
IsDirPath(p) == SymlinkMetadata(p) \in Inodes /\ Kind(SymlinkMetadata(p)) = "dir"

\* The entries transitively under directory path p, not passing through a
\* symlink.
RECURSIVE Descendants(_)
Descendants(p) ==
    IF IsDirPath(p)
    THEN UNION { {Join(p, n)} \cup Descendants(Join(p, n)) : n \in Entries(SymlinkMetadata(p)) }
    ELSE {}

\* The set_mode call on q made for root i has been made and has returned.
Attempted(i, q) ==
    /\ Count(tried, <<i, q>>) > 0
    /\ ~(i = idx /\ q \in DOMAIN task /\ task[q].s = "write")

\* C1: post-order application.  Whenever the set_mode call on a directory D
\* has been made (for any root, under any interleaving of the entry tasks),
\* the set_mode call on every entry transitively under D has already been
\* made and has returned.
C1_PostOrder ==
    \A k \in DOMAIN tried :
        IsDirPath(k[2]) => \A q \in Descendants(k[2]) : Attempted(k[1], q)

\* C1 witness: /d has been written, after a, b and c under it.
C1_Witness ==
    /\ Count(wrote, <<1, <<"d">>>>) = 1
    /\ Count(wrote, <<1, <<"d", SEP, "b">>>>) = 1
    /\ Count(wrote, <<1, <<"d", SEP, "b", SEP, "c">>>>) = 1
    /\ Count(wrote, <<1, <<"d", SEP, "a">>>>) = 1

\* The direct entries of directory task D that have been taken and failed.
FailedEntries(D) ==
    { q \in DOMAIN task : /\ \E n \in Inodes : q = Join(D, n)
                          /\ q # D
                          /\ task[q].s = "err" }

\* C2: if an entry task of directory D failed, D's own set_mode is never
\* called and D's traversal does not succeed (it is still waiting or has
\* returned an error); and when D's own set_mode has been called, every entry
\* of D has been taken and has succeeded.
C2_ChildFailureBlocksParent ==
    \A D \in DOMAIN task :
        task[D].dir =>
            /\ FailedEntries(D) # {} =>
                  /\ task[D].s \in {"iter", "err"}
                  /\ Count(tried, <<idx, D>>) = 0
            /\ Count(tried, <<idx, D>>) > 0 =>
                  \A n \in Entries(Ino(D)) :
                      /\ Join(D, n) \in DOMAIN task
                      /\ task[Join(D, n)].s = "ok"

\* C2 witness: the traversal of /d returned an error because an entry under
\* it failed, and /d was not written.
C2_Witness ==
    /\ <<"d">> \in DOMAIN task
    /\ task[<<"d">>].s = "err"
    /\ FailedEntries(<<"d">>) # {}
    /\ Count(tried, <<idx, <<"d">>>>) = 0

\* C3: completeness, exactly once.  When the processing of a directory root
\* has succeeded, the root and every entry under it (not passing through a
\* symlink) has had exactly one set_mode call for that root, and the call
\* succeeded; with an Octal mode the bits of all of them are that number.
C3_CompleteExactlyOnce ==
    \A i \in 1..Len(seen) :
        (seen[i].class = "dir" /\ i < idx) =>
            \A q \in {seen[i].path} \cup Descendants(seen[i].path) :
                /\ Count(tried, <<i, q>>) = 1
                /\ Count(wrote, <<i, q>>) = 1
                /\ mode.tag = "Octal" => bits[Ino(q)] = mode.n

\* C3 witness: root /d has succeeded with Octal(0o644), run returned Ok.
C3_Witness ==
    /\ files = << <<"d">> >>
    /\ mode.tag = "Octal"
    /\ pc = "done"
    /\ result = Ok
    /\ \A i \in {"d", "a", "b", "c"} : bits[i] = mode.n
    /\ Count(wrote, <<1, <<"d", SEP, "s">>>>) = 1

\* C4 as stated: in any run, for any list of roots, no path has set_mode
\* called on it more than once.
C4_NoPathTwice ==
    \A k1, k2 \in DOMAIN tried :
        k1[2] = k2[2] => (k1 = k2 /\ tried[k1] = 1)

\* C4 amended: during the processing of one root of the list no path has
\* set_mode called on it more than once (a path that several roots of the
\* list name or contain is visited once for each of them).
C4_OncePerRoot ==
    \A k \in DOMAIN tried : tried[k] = 1

\* C4 witness: the list names /d twice; /d/a was visited once for each root.
C4_Witness ==
    /\ Count(tried, <<1, <<"d", SEP, "a">>>>) = 1
    /\ Count(tried, <<2, <<"d", SEP, "a">>>>) = 1

\* The normal form the specification gives a root: every trailing separator
\* removed, the path that is only separators being the root directory.
RECURSIVE Canon(_)
Canon(p) == IF Len(p) > 1 /\ EndsWithSep(p) THEN Canon(SubSeq(p, 1, Len(p) - 1)) ELSE p

\* The path names a symlink entry.
SymlinkEntry(p) ==
    LET i == SymlinkMetadata(Canon(p)) IN i \in Inodes /\ Kind(i) = "symlink"

\* Path q has a component after a symlink entry.
ThroughSymlink(q) ==
    \E j \in 1..Len(q) :
        /\ q[j] # SEP
        /\ j < Len(q) /\ q[j + 1] = SEP
        /\ SymlinkEntry(SubSeq(q, 1, j))
        /\ \E l \in (j + 1)..Len(q) : q[l] # SEP

\* C5 as stated: a symlink entry, as a root or as an entry of a visited
\* directory, is classified as a non-directory, is never enumerated, and no
\* path through it has set_mode called on it.
C5_SymlinkNeverTraversed ==
    /\ \A i \in 1..Len(seen) :
          (SymlinkEntry(files[i]) /\ seen[i].class # "ioerr") => seen[i].class = "file"
    /\ \A p \in DOMAIN task :
          SymlinkEntry(p) => (~task[p].dir /\ task[p].s \notin {"readdir", "iter"})
    /\ \A k \in DOMAIN tried : ~ThroughSymlink(k[2])

\* The root names nothing.
PathMissing(R) == Resolve(R, FALSE) = "ENOENT"

\* C6: without force, a root whose path does not exist when it is classified
\* (the metadata read reports NotFound) makes the run return NotFound naming
\* that root, and no set_mode call is made for that root.
C6_MissingRootFails ==
    \A i \in 1..Len(seen) :
        (~force /\ PathMissing(files[i]) /\ seen[i].class # "ioerr") =>
            /\ seen[i].class = "notfound"
            /\ pc = "done"
            /\ result.kind = "NotFound"
            /\ Canon(result.file) = Canon(files[i])
            /\ \A k \in DOMAIN tried : k[1] # i

\* C6 witness: roots f, m without force: f was written, then NotFound(m).
C6_Witness ==
    /\ ~force
    /\ files = << <<"f">>, <<"m">> >>
    /\ result = NotFound(<<"m">>)
    /\ Count(wrote, <<1, <<"f">>>>) = 1

\* C7: with force, a missing root is skipped: no error comes from it, no
\* set_mode call is made for it, the loop goes on to the roots after it (a
\* run never ends at a skipped root unless it was the last), and a run whose
\* roots are all missing returns Ok without any set_mode call.
C7_ForceSkipsMissing ==
    force =>
        /\ \A i \in 1..Len(seen) :
              (PathMissing(files[i]) /\ seen[i].class # "ioerr") =>
                  /\ seen[i].class = "skipped"
                  /\ idx > i
                  /\ result.kind # "NotFound"
                  /\ \A k \in DOMAIN tried : k[1] # i
        /\ pc = "done" =>
              \/ result = Ok /\ Len(seen) = Len(files)
              \/ result # Ok /\ seen[Len(seen)].class # "skipped"
        /\ ( /\ pc = "done"
             /\ \A i \in 1..Len(files) : PathMissing(files[i])
             /\ \A i \in 1..Len(seen) : seen[i].class # "ioerr" )
           => (result = Ok /\ tried = <<>> /\ bits = InitBits)

\* C7 witness: roots m, f with force: m was skipped, f written, run Ok.
C7_Witness ==
    /\ force
    /\ files = << <<"m">>, <<"f">> >>
    /\ pc = "done"
    /\ result = Ok
    /\ seen[1].class = "skipped"
    /\ Count(wrote, <<2, <<"f">>>>) = 1

\* What the processing of root R depends on: the path used and its metadata.
RootView(R) == [path |-> StripPath(R), meta |-> SymlinkMetadata(StripPath(R))]

\* C8 as stated: a root that ends with a separator is processed as the same
\* root with that separator removed is: same path used (hence same path in
\* any error, same paths written) and same classification.
C8_TrailingSepSame ==
    \A i \in 1..Len(seen) :
        EndsWithSep(files[i]) =>
            /\ seen[i].path = RootView(SubSeq(files[i], 1, Len(files[i]) - 1)).path
            /\ SymlinkMetadata(seen[i].path)
                  = RootView(SubSeq(files[i], 1, Len(files[i]) - 1)).meta

\* C9 as stated: the path used for classification and mode application is
\* the raw root without any trailing separator, nothing else altered (the
\* root directory stays the root directory).
C9_Normalized ==
    \A i \in 1..Len(seen) : seen[i].path = Canon(files[i])

\* C10: first error wins.  When entries of a directory have failed, the
\* directory's traversal is never a success and the error it returns is the
\* error of one of its failed entries; and the run's error then carries an
\* error that some task below the root produced at its own path.
C10_FirstErrorWins ==
    /\ \A D \in DOMAIN task :
          (task[D].dir /\ FailedEntries(D) # {}) =>
              /\ task[D].s \in {"iter", "err"}
              /\ task[D].s = "err" => \E q \in FailedEntries(D) : task[q].e = task[D].e
    /\ \A i \in 1..Len(seen) :
          ( /\ pc = "done" /\ i = idx /\ seen[i].class = "dir"
            /\ seen[i].path \in DOMAIN task
            /\ FailedEntries(seen[i].path) # {} )
          => /\ result.kind \in {"Io", "FileMode"}
             /\ \E q \in DOMAIN task :
                   /\ q # seen[i].path
                   /\ task[q].s = "err"
                   /\ task[q].e = result.cause
                   /\ task[q].e.path = q

\* C10 witness: two entries of /d failed with different errors and the run
\* has returned one of them.
C10_Witness ==
    /\ pc = "done"
    /\ <<"d">> \in DOMAIN task
    /\ \E q1, q2 \in FailedEntries(<<"d">>) : task[q1].e # task[q2].e
    /\ result.cause \in { task[q].e : q \in FailedEntries(<<"d">>) }

\* C11 as stated: an Io error returned by the run names, in its context, the
\* path of the entry whose file system operation failed.
C11_IoContextNamesPath ==
    (pc = "done" /\ result.kind = "Io") => result.file = result.cause.path

\* C12 as stated: a failure on one root still lets the other roots of the
\* list be processed; when the run has returned every root has been handled.
C12_RootsIndependent ==
    pc = "done" => Len(seen) = Len(files)

\* How the file system classifies root R on its own.
ClassOf(R) ==
    LET meta == SymlinkMetadata(StripPath(R)) IN
    IF meta = "ENOENT" THEN (IF force THEN "skipped" ELSE "notfound")
    ELSE IF meta \notin Inodes THEN "ioerr"
    ELSE IF Kind(meta) = "dir" THEN "dir" ELSE "file"

\* C12 amended: the roots are processed in list order up to the first one
\* that fails.  A root before it is classified as it would be alone, whatever
\* the other roots are; the first failing root ends the run and no root after
\* it is classified or written.
C12_UntilFirstFailure ==
    /\ \A i \in 1..Len(seen) :
          /\ seen[i].path = StripPath(files[i])
          /\ seen[i].class # "ioerr" => seen[i].class = ClassOf(files[i])
    /\ pc = "done" =>
          /\ Len(seen) = (IF result = Ok THEN Len(files) ELSE idx)
          /\ \A k \in DOMAIN tried : k[1] <= Len(seen)

\* C12 witness: roots d/s, m without force: d/s was written, m failed.
C12_Witness ==
    /\ files = << <<"d", SEP, "s">>, <<"m">> >>
    /\ pc = "done"
    /\ result.kind = "NotFound"
    /\ Count(wrote, <<1, <<"d", SEP, "s">>>>) = 1

\* Path q lies strictly under directory path D.
StrictlyUnder(D, q) == Len(q) > Len(D) /\ SubSeq(q, 1, Len(D)) = D

\* C15: barrier without hard cancellation.  Once the traversal of a
\* directory D has passed try_for_each (D is at its own set_mode, or has
\* returned), every task under D has finished; when the run has returned no
\* task is in flight, also when it returned an error.
C15_Barrier ==
    /\ \A D \in DOMAIN task :
          (task[D].dir /\ task[D].s \notin {"readdir", "iter"}) =>
              \A q \in DOMAIN task : StrictlyUnder(D, q) => Terminal(task[q])
    /\ pc = "done" => \A p \in DOMAIN task : Terminal(task[p])

\* C15 witness: the run returned the error of a failed entry of /d, and an
\* entry of /d taken alongside it ran to completion.
C15_Witness ==
    /\ pc = "done"
    /\ result # Ok
    /\ <<"d">> \in DOMAIN task
    /\ FailedEntries(<<"d">>) # {}
    /\ \E q \in DOMAIN task : StrictlyUnder(<<"d">>, q) /\ task[q].s = "ok"

\* C17 as stated: no two tasks are at the same time between the read and the
\* write of a set_mode call on the same entry.
C17_DisjointWorkers ==
    \A p, q \in DOMAIN task :
        (p # q /\ task[p].s = "write" /\ task[q].s = "write") => Ino(p) # Ino(q)

\* C20: the roots are handled one after the other in list order.  Tasks and
\* set_mode calls belong to the current root or to earlier ones, every
\* earlier root was skipped or completed with its own mode written, an error
\* returned is that of the current (first failing) root, and what was written
\* stays written.
C20_Sequential ==
    /\ Len(seen) <= idx
    /\ \A k \in DOMAIN tried : k[1] <= idx
    /\ \A p \in DOMAIN task :
          idx <= Len(seen) /\ (p = seen[idx].path \/ StrictlyUnder(seen[idx].path, p))
    /\ \A i \in 1..Len(seen) :
          i < idx => \/ seen[i].class = "skipped"
                     \/ /\ seen[i].class \in {"dir", "file"}
                        /\ Count(wrote, <<i, seen[i].path>>) = 1
    /\ (pc = "done" /\ result # Ok) =>
          /\ Len(seen) = idx
          /\ result.kind \in {"NotFound", "Io"} => result.file = seen[idx].path
          /\ result.kind \notin {"NotFound", "Io"} => result.cause.kind = "ModeParseError"
    /\ \A k \in DOMAIN wrote :
          bits[Ino(k[2])] = (IF mode.tag = "Octal" THEN mode.n
                             ELSE Transform(bits[Ino(k[2])]))

\* C20 witness: roots d, m with Octal: /d was completed, then m failed, and
\* the bits written under /d are still there.
C20_Witness ==
    /\ files = << <<"d">>, <<"m">> >>
    /\ mode.tag = "Octal"
    /\ pc = "done"
    /\ result = NotFound(<<"m">>)
    /\ \A i \in {"d", "a", "b", "c"} : bits[i] = mode.n

(* ----------------------------------------------------------------------- *)
\* Reference reading of a mode string as a base-8 integer of 32 bits.
DigitValue(c) ==
    CASE c = "0" -> 0 [] c = "1" -> 1 [] c = "2" -> 2 [] c = "3" -> 3
      [] c = "4" -> 4 [] c = "5" -> 5 [] c = "6" -> 6 [] c = "7" -> 7

Unsigned(m) == IF Len(m) > 0 /\ m[1] = "+" THEN Tail(m) ELSE m

RECURSIVE Significant(_)
Significant(q) == IF Len(q) > 0 /\ q[1] = "0" THEN Significant(Tail(q)) ELSE q

\* At least one digit, octal digits only, and below 2^32 = 0o40000000000.
IsOctalLiteral(m) ==
    LET q == Unsigned(m)
        g == Significant(q)
    IN /\ Len(q) >= 1
       /\ \A i \in 1..Len(q) : q[i] \in {"0", "1", "2", "3", "4", "5", "6", "7"}
       /\ Len(g) <= 10 \/ (Len(g) = 11 /\ g[1] \in {"1", "2", "3"})

\* Bit j and octal digit k (from the right) of the number held in limbs n.
LimbBit(n, j) ==
    IF j < 16 THEN (n[2] \div (2 ^ j)) % 2
    ELSE IF j < 32 THEN (n[1] \div (2 ^ (j - 16))) % 2
    ELSE 0

LimbDigit(n, k) == LimbBit(n, 3 * k) + 2 * LimbBit(n, 3 * k + 1) + 4 * LimbBit(n, 3 * k + 2)

\* C13: ChmodMode::new yields Octal(n) exactly when the whole string reads
\* as a base-8 integer n of 32 bits (an optional "+" first, then digits),
\* digit for digit; otherwise Symbolic holding the string unchanged.  It has
\* a value for every string: signs, the empty string and overflow included.
C13_OctalIffParses ==
    pc = "parsed" =>
        LET m == env.args.mode
            g == Significant(Unsigned(m))
        IN IF IsOctalLiteral(m)
           THEN /\ mode.tag = "Octal"
                /\ mode.n[1] \in 0..65535 /\ mode.n[2] \in 0..65535
                /\ \A k \in 0..10 :
                      LimbDigit(mode.n, k) = (IF k < Len(g) THEN DigitValue(g[Len(g) - k]) ELSE 0)
           ELSE mode = [tag |-> "Symbolic", n |-> <<0, 0>>, s |-> m]

\* 0o40000000000 = 2^32 does not fit and is kept as a symbolic string.
C13_Witness ==
    /\ pc = "parsed"
    /\ env.args.mode = <<"4">> \o Rep("0", 10)
    /\ mode.tag = "Symbolic"
    /\ mode.s = env.args.mode

\* C14: chmodz with the force flag hands force = TRUE to the core and the
\* run does not fail on a missing path; without it force = FALSE and a
\* NotFound failure carries the hint to use --force.
C14_ForceFlag ==
    pc # "main" =>
        IF env.args.force
        THEN force = TRUE /\ result.kind \notin {"Usage", "NotFound"}
        ELSE /\ force = FALSE
             /\ (pc = "done" /\ result.kind = "NotFound") =>
                    Attached(result) = "Use --force to ignore."

\* C16: with a symbolic mode the parser rejects, no permission bit changes,
\* every set_mode call made fails (with the parse error unless an I/O
\* failure was injected into that call), and a run that made at least one
\* call does not succeed: it returns FileMode when no I/O failure occurred.
C16_BadSymbolicChangesNothing ==
    (mode.tag = "Symbolic" /\ mode.s = "bad") =>
        /\ bits = InitBits
        /\ wrote = <<>>
        /\ \A p \in DOMAIN task :
              Count(tried, <<idx, p>>) > 0 =>
                 /\ task[p].s = "err"
                 /\ \/ task[p].e = ModeParseError(p)
                    \/ faults > 0 /\ task[p].e = IoError(p, "set_mode")
        /\ (pc = "done" /\ tried # <<>>) =>
              /\ result.kind \in {"FileMode", "Io"}
              /\ faults = 0 => result.kind = "FileMode"

\* The empty directory root: its only application is the root's own.
C16_Witness ==
    /\ pc = "done"
    /\ env.tree = "empty"
    /\ files = << <<"e">> >>
    /\ mode.s = "bad"
    /\ result = FileMode(ModeParseError(<<"e">>))
    /\ Count(tried, <<1, <<"e">>>>) = 1
    /\ bits = InitBits

\* C18: once the mode of a directory has been written in the traversal of a
\* root, no task of that traversal is still at work on a path that is
\* resolved through that directory; and without injected failures no task
\* of an unprivileged run fails with an I/O error.
C18_NoSelfLockout ==
    /\ \A k \in DOMAIN wrote :
          (pc = "root" /\ k[1] = idx /\ Kind(Ino(k[2])) = "dir") =>
             \A q \in DOMAIN task :
                Ino(k[2]) \in SearchedDirs("/", q, 1) => Terminal(task[q])
    /\ (env.unpriv /\ faults = 0) =>
          \A p \in DOMAIN task : task[p].e.kind # "IoError"

\* C19: under fair scheduling every run ends, with one outcome that stays.
C19_Terminates == <>[](pc = "done" /\ result # Running)

\* One worker, a tree deeper than the pool: the run of root d ends with Ok.
C19_Witness ==
    /\ pc = "done"
    /\ env.workers = 1
    /\ files = << <<"d">> >>
    /\ result = Ok
    /\ \A i \in {"d", "a", "b", "c"} : bits[i] = IF mode.tag = "Octal" THEN mode.n ELSE Transform(InitBits[i])

====
